---- MODULE Spec2Model ----
(***************************************************************************)
(* Model of scraper-script.py: the template-matching CaptchaSolver and the *)
(* login retry loop of AUInfoExtractor, with extract_info around it.       *)
(*                                                                         *)
(* Arrays are sequences of rows (as numpy 2-d arrays print); a Python str  *)
(* is a sequence of one-character strings; an exception is the name of its *)
(* class.  Percentages are kept in hundredths of a percent (exact for the  *)
(* 200-pixel cells the solver produces).                                   *)
(***************************************************************************)
EXTENDS Integers, Sequences, FiniteSets, TLC

\* ---------------------------------------------------------------- bounds
MaxTemplates == 2
MaxRetries == 3
MaxPosition == 8

\* ------------------------------------------------------ program constants
ImageWidth == 70
ImageHeight == 20
CellStep == 10
Threshold == 128
White == 255
NumPositions == 6
LowConfidence == 50
DefaultMaxRetries == 3

VARIABLES
    test_set,        \* CaptchaSolver.test_set: the ordered template library
    numpy_legacy,    \* build: TRUE when == on unbroadcastable shapes yields False
    solve_out,       \* outcome of the latest CaptchaSolver.solve call
    extract_out,     \* outcome of the latest _extract_character call
    pc,              \* position of the control flow in extract_info / login
    caller,          \* who called login: "test" (directly) or "extract_info"
    max_retries,     \* login's max_retries argument
    attempt,         \* login's loop variable
    captcha_path,    \* login's local captcha_path: Unbound or TempCaptcha(n)
    files,           \* temp_captcha_<n>.png files present: pairs <<path, content>>
    exc,             \* exception in flight inside the try block of login
    failed_at,       \* statement of the attempt that raised exc
    pending,         \* what the finally block of login resumes
    outcomes,        \* one log record per finished attempt (lines 165, 169, 175)
    login_out,       \* how login ended
    driver,          \* extract_info's local driver: "None", "live" or "quit"
    driver_ops,      \* operations performed on the WebDriver, in order
    info_out         \* how extract_info ended

vars == <<test_set, numpy_legacy, solve_out, extract_out, pc, caller,
          max_retries, attempt, captcha_path, files, exc, failed_at, pending,
          outcomes, login_out, driver, driver_ops, info_out>>

solver_vars == <<test_set, numpy_legacy, solve_out, extract_out>>
login_vars == <<pc, caller, max_retries, attempt, captcha_path, files, exc,
                failed_at, pending, outcomes, login_out, driver, driver_ops,
                info_out>>

\* ------------------------------------------------------------- helpers
Min(a, b) == IF a < b THEN a ELSE b
Max(a, b) == IF a > b THEN a ELSE b

Rows(a) == Len(a)
Cols(a) == IF Len(a) = 0 THEN 0 ELSE Len(a[1])
Size(a) == Rows(a) * Cols(a)

Filled(rows, cols, v) == [i \in 1..rows |-> [j \in 1..cols |-> v]]

\* ------------------------------------------------------- CaptchaSolver
char_map ==
    <<"0","1","2","3","4","5","6","7","8","9",
      "A","B","C","D","E","F","G","H","I","J","K","L","M",
      "N","O","P","Q","R","S","T","U","V","W","X","Y","Z">>

template_0 ==
    [i \in 1..10 |-> [j \in 1..8 |->
        White * (IF i \in {1, 10} THEN (IF j \in 2..7 THEN 1 ELSE 0)
                 ELSE IF i \in {2, 9} THEN 1
                 ELSE (IF j \in {1, 2, 7, 8} THEN 1 ELSE 0))]]

\* _load_test_set: the library the constructor builds
LoadTestSet == <<template_0>>

\* Templates of the cell's own shape and one broadcastable template, for
\* libraries extended beyond the seed template.
TFull == Filled(ImageHeight, CellStep, White)
TTop == [i \in 1..ImageHeight |-> [j \in 1..CellStep |-> IF i <= 10 THEN White ELSE 0]]
TBottom == [i \in 1..ImageHeight |-> [j \in 1..CellStep |-> IF i > 10 THEN White ELSE 0]]
TDot == Filled(1, 1, White)
TemplatePool == {template_0, TFull, TTop, TBottom, TDot}

Libraries == UNION {[1..n -> TemplatePool] : n \in 0..MaxTemplates}

\* Captcha images after decoding to luminance and resizing to 70x20.
ImageIds == {"black", "white", "gray128", "top", "mixed"}
Contents == ImageIds \cup {"corrupt"}

Gray(image) ==
    [i \in 1..ImageHeight |-> [j \in 1..ImageWidth |->
        CASE image = "black" -> 0
          [] image = "white" -> 255
          [] image = "gray128" -> 128
          [] image = "top" -> IF i <= 10 THEN 200 ELSE 100
          [] OTHER -> IF ((j - 1) \div CellStep) % 2 = 0 THEN 255
                      ELSE IF i <= 10 THEN 129 ELSE 128]]

\* _preprocess_image, line 59: matrix = (matrix > 128) * 255
Binarize(gray) ==
    [i \in 1..Rows(gray) |-> [j \in 1..Cols(gray) |->
        (IF gray[i][j] > Threshold THEN 1 ELSE 0) * White]]

\* _preprocess_image: "missing" is a path with no file behind it
PreprocessImage(content) ==
    IF content = "missing" THEN [kind |-> "raise", exc |-> "FileNotFoundError", matrix |-> <<>>]
    ELSE IF content = "corrupt" THEN [kind |-> "raise", exc |-> "UnidentifiedImageError", matrix |-> <<>>]
    ELSE [kind |-> "return", exc |-> "none", matrix |-> Binarize(Gray(content))]

\* Python's slice.indices for one bound of a slice over an axis of length n
SliceBound(k, n) == IF k < 0 THEN Max(k + n, 0) ELSE Min(k, n)

\* _extract_character: matrix[:, start_x:start_x + 10]
ExtractCharacter(matrix, position) ==
    LET start_x == position * CellStep
        lo == SliceBound(start_x, Cols(matrix))
        hi == SliceBound(start_x + CellStep, Cols(matrix))
        n == IF hi > lo THEN hi - lo ELSE 0
    IN [i \in 1..Rows(matrix) |-> [j \in 1..n |-> matrix[i][lo + j]]]

\* numpy broadcasting of two 2-d shapes
Broadcastable(a, b) ==
    /\ (Rows(a) = Rows(b) \/ Rows(a) = 1 \/ Rows(b) = 1)
    /\ (Cols(a) = Cols(b) \/ Cols(a) = 1 \/ Cols(b) = 1)

BDim(m, n) == IF m = 1 THEN n ELSE m

At(a, i, j) == a[IF Rows(a) = 1 THEN 1 ELSE i][IF Cols(a) = 1 THEN 1 ELSE j]

\* np.sum(char_matrix == test_matrix) for broadcastable operands
MatchingPixels(char_matrix, test_matrix) ==
    Cardinality({p \in (1..BDim(Rows(char_matrix), Rows(test_matrix)))
                        \X (1..BDim(Cols(char_matrix), Cols(test_matrix))) :
                    At(char_matrix, p[1], p[2]) = At(test_matrix, p[1], p[2])})

\* _calculate_match_percentage, in hundredths of a percent.  On operands
\* that do not broadcast, == raises ValueError in current numpy builds and
\* evaluates to the scalar False (sum 0) in legacy ones.
CalculateMatchPercentage(char_matrix, test_matrix, legacy) ==
    IF Broadcastable(char_matrix, test_matrix)
    THEN [kind |-> "return", exc |-> "none",
          pct |-> (MatchingPixels(char_matrix, test_matrix) * 10000) \div Size(char_matrix)]
    ELSE IF legacy THEN [kind |-> "return", exc |-> "none", pct |-> 0]
    ELSE [kind |-> "raise", exc |-> "ValueError", pct |-> 0]

\* line 98: if match_percent > best_match
IsBetterMatchGE(match_percent, best_match) == match_percent >= best_match

IsBetterMatch(match_percent, best_match) == match_percent > best_match

\* lines 96-100: the loop over enumerate(self.test_set), from index idx (0-based)
RECURSIVE BestMatchLoop(_, _, _, _, _, _)
BestMatchLoop(char_matrix, templates, legacy, idx, best_match, best_char) ==
    IF idx >= Len(templates)
    THEN [kind |-> "return", exc |-> "none", best_match |-> best_match, best_char |-> best_char]
    ELSE LET m == CalculateMatchPercentage(char_matrix, templates[idx + 1], legacy)
         IN IF m.kind = "raise"
            THEN [kind |-> "raise", exc |-> m.exc, best_match |-> best_match, best_char |-> best_char]
            ELSE IF IsBetterMatch(m.pct, best_match)
            THEN IF idx >= Len(char_map)
                 THEN [kind |-> "raise", exc |-> "IndexError",
                       best_match |-> m.pct, best_char |-> best_char]
                 ELSE BestMatchLoop(char_matrix, templates, legacy, idx + 1,
                                    m.pct, <<char_map[idx + 1]>>)
            ELSE BestMatchLoop(char_matrix, templates, legacy, idx + 1, best_match, best_char)

\* lines 93-94: best_match = 0, best_char = ''
InitialBestChar == <<>>

\* lines 91-105: the loop over range(6), from position i; result holds one
\* best_char per finished position, low the positions warned about
RECURSIVE SolveLoop(_, _, _, _, _, _)
SolveLoop(matrix, templates, legacy, i, result, low) ==
    IF i >= NumPositions
    THEN [kind |-> "return", exc |-> "none", result |-> result, low |-> low]
    ELSE LET b == BestMatchLoop(ExtractCharacter(matrix, i), templates, legacy,
                                0, 0, InitialBestChar)
         IN IF b.kind = "raise"
            THEN [kind |-> "raise", exc |-> b.exc, result |-> result, low |-> low]
            ELSE SolveLoop(matrix, templates, legacy, i + 1, Append(result, b.best_char),
                           IF b.best_match < LowConfidence * 100 THEN low \cup {i} ELSE low)

\* ''.join(result)
RECURSIVE Join(_)
Join(parts) == IF parts = <<>> THEN <<>> ELSE Head(parts) \o Join(Tail(parts))

\* CaptchaSolver.solve on a file with the given content.  opened records
\* that Image.open was called on the path.
Solve(content, templates, legacy) ==
    LET p == PreprocessImage(content)
    IN IF p.kind = "raise"
       THEN [kind |-> "raise", exc |-> p.exc, value |-> <<>>, result |-> <<>>,
             low |-> {}, opened |-> TRUE, content |-> content]
       ELSE LET s == SolveLoop(p.matrix, templates, legacy, 0, <<>>, {})
            IN [kind |-> s.kind, exc |-> s.exc,
                value |-> IF s.kind = "return" THEN Join(s.result) ELSE <<>>,
                result |-> s.result, low |-> s.low, opened |-> TRUE, content |-> content]

NoCall == [kind |-> "none", exc |-> "none", value |-> <<>>, result |-> <<>>,
           low |-> {}, opened |-> FALSE, content |-> "none"]

NoExtract == [kind |-> "none", position |-> 0, width |-> 0, cell |-> <<>>]

\* line 147: captcha_path = f"temp_captcha_{attempt}.png"; Unbound before it
Unbound == [bound |-> FALSE, n |-> 0]
TempCaptcha(a) == [bound |-> TRUE, n |-> a]

\* ------------------------------------------------------ login: initial state
LoginIdle ==
    /\ pc = "start"
    /\ caller = "none"
    /\ max_retries = 0
    /\ attempt = 0
    /\ captcha_path = Unbound
    /\ files = {}
    /\ exc = "none"
    /\ failed_at = "none"
    /\ pending = "none"
    /\ outcomes = <<>>
    /\ login_out = [kind |-> "none", val |-> "none", via |-> "none"]
    /\ driver = "None"
    /\ driver_ops = <<>>
    /\ info_out = [kind |-> "none", val |-> "none", via |-> "none"]

\* -------------------------------------------- specification of the solver
InitSolver ==
    /\ test_set \in Libraries
    /\ numpy_legacy \in BOOLEAN
    /\ solve_out = NoCall
    /\ extract_out = NoExtract
    /\ LoginIdle

\* a call of solver.solve(path) on a file with some content
SolveCall ==
    /\ solve_out = NoCall /\ extract_out = NoExtract
    /\ \E content \in Contents :
          solve_out' = Solve(content, test_set, numpy_legacy)
    /\ UNCHANGED <<test_set, numpy_legacy, extract_out>>
    /\ UNCHANGED login_vars

\* a call of solver._extract_character(matrix, position) on a preprocessed image
ExtractCall ==
    /\ solve_out = NoCall /\ extract_out = NoExtract
    /\ \E image \in ImageIds, position \in (0 - MaxPosition)..MaxPosition :
          LET matrix == PreprocessImage(image).matrix
              cell == ExtractCharacter(matrix, position)
          IN extract_out' = [kind |-> "return", position |-> position,
                             width |-> Cols(matrix), cell |-> cell]
    /\ UNCHANGED <<test_set, numpy_legacy, solve_out>>
    /\ UNCHANGED login_vars

NextSolver == SolveCall \/ ExtractCall

SpecSolver == InitSolver /\ [][NextSolver]_vars

\* ------------------------------------------------- AUInfoExtractor.login
\* what the captcha element's screenshot may hold
LoginContents == {"mixed", "corrupt"}

RECURSIVE Count(_, _)
Count(seq, x) ==
    IF seq = <<>> THEN 0
    ELSE (IF Head(seq) = x THEN 1 ELSE 0) + Count(Tail(seq), x)

Last(seq) == seq[Len(seq)]

\* content of temp_captcha_<path>.png as Image.open finds it
ContentAt(fs, path) ==
    IF \E f \in fs : f[1] = path
    THEN (CHOOSE f \in fs : f[1] = path)[2]
    ELSE "missing"

\* screenshot(captcha_path): the file at the path is (over)written
FilesAfterWrite(fs, path, content) ==
    {f \in fs : f[1] # path} \cup {<<path, content>>}

FilesAfterCleanupSkipped(fs, path) == fs

\* lines 181-182: if os.path.exists(captcha_path): os.remove(captcha_path)
FilesAfterCleanup(fs, path) == {f \in fs : f[1] # path}

IsLastAttemptOffByOne(a, n) == a >= n - 2

\* lines 170, 176: if attempt == max_retries - 1
IsLastAttempt(a, n) == a = n - 1

AwaitOutcomeAlwaysSuccess(found) == "success"

\* lines 161-166: WebDriverWait(driver, 5).until(dashboard present)
AwaitOutcome(found) == IF found THEN "success" ELSE "timeout"

None == [kind |-> "none", val |-> "none", via |-> "none"]
Returned(v) == [kind |-> "return", val |-> v, via |-> "return"]
Raised(e, via) == [kind |-> "raise", val |-> e, via |-> via]

Fail(step, e) ==
    /\ exc' = e
    /\ failed_at' = step
    /\ pc' = "except"

\* a test calls login(driver, username, password, max_retries = n)
CallLogin ==
    /\ pc = "start"
    /\ \E n \in 0..MaxRetries : max_retries' = n
    /\ caller' = "test"
    /\ driver' = "live"
    /\ attempt' = 0
    /\ pc' = "loop"
    /\ UNCHANGED <<captcha_path, files, exc, failed_at, pending, outcomes,
                   login_out, driver_ops, info_out>>
    /\ UNCHANGED solver_vars

\* line 137: for attempt in range(max_retries); line 184: return False
LoopHead ==
    /\ pc = "loop"
    /\ IF attempt < max_retries
       THEN /\ pc' = "navigate"
            /\ login_out' = login_out
       ELSE /\ pc' = "login_done"
            /\ login_out' = Returned("False")
    /\ exc' = "none"
    /\ failed_at' = "none"
    /\ pending' = "none"
    /\ UNCHANGED <<caller, max_retries, attempt, captcha_path, files, outcomes,
                   driver, driver_ops, info_out>>
    /\ UNCHANGED solver_vars

\* lines 140-144: driver.get(login_url); wait up to 10 s for the username field
Navigate ==
    /\ pc = "navigate"
    /\ \/ /\ driver_ops' = Append(driver_ops, "get_login")
          /\ Fail("navigate", "WebDriverException")
       \/ /\ driver_ops' = driver_ops \o <<"get_login", "form_timeout">>
          /\ Fail("navigate", "TimeoutException")
       \/ /\ driver_ops' = driver_ops \o <<"get_login", "form_found">>
          /\ pc' = "capture"
          /\ UNCHANGED <<exc, failed_at>>
    /\ UNCHANGED <<caller, max_retries, attempt, captcha_path, files, pending,
                   outcomes, login_out, driver, info_out>>
    /\ UNCHANGED solver_vars

\* lines 146-148: find the captcha element, name the file, take the screenshot
Capture ==
    /\ pc = "capture"
    /\ \/ /\ driver_ops' = Append(driver_ops, "find_captcha")
          /\ Fail("locate", "NoSuchElementException")
          /\ UNCHANGED <<captcha_path, files>>
       \/ /\ driver_ops' = driver_ops \o <<"find_captcha", "screenshot">>
          /\ captcha_path' = TempCaptcha(attempt)
          /\ Fail("screenshot", "WebDriverException")
          /\ UNCHANGED files
       \/ /\ driver_ops' = driver_ops \o <<"find_captcha", "screenshot">>
          /\ captcha_path' = TempCaptcha(attempt)
          /\ \/ \E content \in LoginContents :
                   files' = FilesAfterWrite(files, TempCaptcha(attempt), content)
             \/ files' = files
          /\ pc' = "solve"
          /\ UNCHANGED <<exc, failed_at>>
    /\ UNCHANGED <<caller, max_retries, attempt, pending, outcomes, login_out,
                   driver, info_out>>
    /\ UNCHANGED solver_vars

\* line 150: captcha_solution = self.captcha_solver.solve(captcha_path)
SolveStep ==
    /\ pc = "solve"
    /\ LET out == Solve(ContentAt(files, captcha_path), test_set, numpy_legacy)
       IN /\ solve_out' = out
          /\ IF out.kind = "raise"
             THEN Fail("solve", out.exc)
             ELSE /\ pc' = "submit"
                  /\ UNCHANGED <<exc, failed_at>>
    /\ UNCHANGED <<test_set, numpy_legacy, extract_out>>
    /\ UNCHANGED <<caller, max_retries, attempt, captcha_path, files, pending,
                   outcomes, login_out, driver, driver_ops, info_out>>

\* lines 154-158: fill the three fields and click login
Submit ==
    /\ pc = "submit"
    /\ \/ /\ driver_ops' = driver_ops
          /\ Fail("submit", "NoSuchElementException")
       \/ /\ driver_ops' = driver_ops \o <<"fill_form", "click_login">>
          /\ Fail("submit", "WebDriverException")
       \/ /\ driver_ops' = driver_ops \o <<"fill_form", "click_login">>
          /\ pc' = "await"
          /\ UNCHANGED <<exc, failed_at>>
    /\ UNCHANGED <<caller, max_retries, attempt, captcha_path, files, pending,
                   outcomes, login_out, driver, info_out>>
    /\ UNCHANGED solver_vars

\* lines 161-166: wait up to 5 s for the dashboard, log, return True
AwaitResult ==
    /\ pc = "await"
    /\ \E found \in BOOLEAN :
          /\ driver_ops' = Append(driver_ops,
                 IF found THEN "dashboard_found" ELSE "dashboard_timeout")
          /\ IF AwaitOutcome(found) = "success"
             THEN /\ outcomes' = Append(outcomes, [step |-> "ok", log |-> "successful"])
                  /\ pending' = "return_true"
                  /\ pc' = "finally"
                  /\ UNCHANGED <<exc, failed_at>>
             ELSE /\ Fail("await", "TimeoutException")
                  /\ UNCHANGED <<outcomes, pending>>
    /\ UNCHANGED <<caller, max_retries, attempt, captcha_path, files, login_out,
                   driver, info_out>>
    /\ UNCHANGED solver_vars

\* lines 168-178: both handlers log, then re-raise on the last attempt or continue
Except ==
    /\ pc = "except"
    /\ outcomes' = Append(outcomes,
           [step |-> failed_at,
            log |-> IF exc = "TimeoutException" THEN "timeout" ELSE "error"])
    /\ pending' = IF IsLastAttempt(attempt, max_retries) THEN "raise" ELSE "continue"
    /\ pc' = "finally"
    /\ UNCHANGED <<caller, max_retries, attempt, captcha_path, files, exc,
                   failed_at, login_out, driver, driver_ops, info_out>>
    /\ UNCHANGED solver_vars

\* lines 180-182: the finally block, then what it resumes.  Reading
\* captcha_path while it is unbound raises UnboundLocalError, which replaces
\* whatever was pending.
Finally ==
    /\ pc = "finally"
    /\ IF captcha_path = Unbound
       THEN /\ login_out' = Raised("UnboundLocalError", "finally")
            /\ pc' = "login_done"
            /\ UNCHANGED <<files, attempt>>
       ELSE /\ files' = FilesAfterCleanup(files, captcha_path)
            /\ CASE pending = "return_true" ->
                       /\ login_out' = Returned("True")
                       /\ pc' = "login_done"
                       /\ UNCHANGED attempt
                 [] pending = "raise" ->
                       /\ login_out' = Raised(exc, "reraise")
                       /\ pc' = "login_done"
                       /\ UNCHANGED attempt
                 [] OTHER ->
                       /\ attempt' = attempt + 1
                       /\ pc' = "loop"
                       /\ UNCHANGED login_out
    /\ UNCHANGED <<caller, max_retries, captcha_path, exc, failed_at, pending,
                   outcomes, driver, driver_ops, info_out>>
    /\ UNCHANGED solver_vars

\* ------------------------------------------ AUInfoExtractor.extract_info
CallExtractInfo ==
    /\ pc = "start"
    /\ caller' = "extract_info"
    /\ pc' = "setup"
    /\ UNCHANGED <<max_retries, attempt, captcha_path, files, exc, failed_at,
                   pending, outcomes, login_out, driver, driver_ops, info_out>>
    /\ UNCHANGED solver_vars

\* line 230: driver = self.setup_driver(); line 232 calls login with the default budget
SetupDriver ==
    /\ pc = "setup"
    /\ \/ /\ driver' = "live"
          /\ max_retries' = DefaultMaxRetries
          /\ attempt' = 0
          /\ pc' = "loop"
          /\ UNCHANGED info_out
       \/ /\ info_out' = Raised("WebDriverException", "setup_driver")
          /\ pc' = "info_finally"
          /\ UNCHANGED <<driver, max_retries, attempt>>
    /\ UNCHANGED <<caller, captcha_path, files, exc, failed_at, pending, outcomes,
                   login_out, driver_ops>>
    /\ UNCHANGED solver_vars

\* lines 232-233, 238-240: login's outcome as extract_info sees it
LoginReturn ==
    /\ pc = "login_done"
    /\ caller = "extract_info"
    /\ IF login_out.kind = "raise"
       THEN /\ info_out' = Raised(login_out.val, "login")
            /\ pc' = "info_finally"
       ELSE IF login_out.val = "False"
       THEN /\ info_out' = Raised("Exception", "login_false")
            /\ pc' = "info_finally"
       ELSE /\ pc' = "marks"
            /\ UNCHANGED info_out
    /\ UNCHANGED <<caller, max_retries, attempt, captcha_path, files, exc,
                   failed_at, pending, outcomes, login_out, driver, driver_ops>>
    /\ UNCHANGED solver_vars

\* lines 235-236 with extract_marks (186-224): read the marks table or raise
ExtractMarks ==
    /\ pc = "marks"
    /\ \/ /\ driver_ops' = driver_ops \o <<"get_marks", "read_marks">>
          /\ info_out' = Returned("marks_data")
       \/ /\ driver_ops' = driver_ops \o <<"get_marks">>
          /\ info_out' = Raised("TimeoutException", "extract_marks")
       \/ /\ driver_ops' = driver_ops \o <<"get_marks", "read_marks">>
          /\ info_out' = Raised("IndexError", "extract_marks")
    /\ pc' = "info_finally"
    /\ UNCHANGED <<caller, max_retries, attempt, captcha_path, files, exc,
                   failed_at, pending, outcomes, login_out, driver>>
    /\ UNCHANGED solver_vars

ShouldQuitOnSuccessOnly(d) == d # "None" /\ info_out.kind = "return"

\* line 243: if driver
ShouldQuit(d) == d # "None"

\* lines 242-244: finally: if driver: driver.quit()
InfoFinally ==
    /\ pc = "info_finally"
    /\ IF ShouldQuit(driver)
       THEN /\ driver_ops' = Append(driver_ops, "quit")
            /\ driver' = "quit"
       ELSE UNCHANGED <<driver, driver_ops>>
    /\ pc' = "exit"
    /\ UNCHANGED <<caller, max_retries, attempt, captcha_path, files, exc,
                   failed_at, pending, outcomes, login_out, info_out>>
    /\ UNCHANGED solver_vars

\* ------------------------------- specification of login and extract_info
Init ==
    /\ test_set = LoadTestSet
    /\ numpy_legacy \in BOOLEAN
    /\ solve_out = NoCall
    /\ extract_out = NoExtract
    /\ LoginIdle

Next ==
    \/ CallLogin
    \/ LoopHead
    \/ Navigate
    \/ Capture
    \/ SolveStep
    \/ Submit
    \/ AwaitResult
    \/ Except
    \/ Finally
    \/ CallExtractInfo
    \/ SetupDriver
    \/ LoginReturn
    \/ ExtractMarks
    \/ InfoFinally

Spec == Init /\ [][Next]_vars

\* ------------------------------------------------------------ properties
AttemptsStarted == Count(driver_ops, "get_login")

AllAttemptsFailed == \A i \in 1..Len(outcomes) : outcomes[i].step # "ok"

LoginEnded == login_out.kind # "none"

\* the driver operations of the attempt in progress (from its page load on)
CurrentAttemptOps(ops) ==
    IF Count(ops, "get_login") = 0 THEN <<>>
    ELSE LET last == CHOOSE i \in 1..Len(ops) :
                        /\ ops[i] = "get_login"
                        /\ \A j \in (i + 1)..Len(ops) : ops[j] # "get_login"
         IN SubSeq(ops, last, Len(ops))

\* C1: when login is called with max attempts N >= 1 and every attempt
\* fails, exactly N attempts are started and login then ends by raising an
\* error to its caller; it never ends after fewer than N attempts and never
\* starts an (N+1)-th.
C1_ExactlyNAttemptsThenExhausted ==
    /\ AttemptsStarted <= max_retries
    /\ (LoginEnded /\ max_retries >= 1 /\ AllAttemptsFailed)
          => /\ AttemptsStarted = max_retries
             /\ login_out.kind = "raise"

\* C2: whenever a new attempt is about to navigate, and whenever login has
\* returned or raised, no temporary captcha image is left on the filesystem.
C2_NoTempFileAtAttemptBoundary ==
    (pc \in {"loop", "navigate"} \/ LoginEnded) => files = {}

C2_Witness ==
    /\ pc = "navigate"
    /\ attempt >= 1
    /\ solve_out.content \in LoginContents
    /\ files = {}

\* C3: a failure before the captcha path is established (navigation, or
\* locating the captcha element) on an attempt that is not the last one does
\* not end login with an error: login raises after such a failure only on
\* the last attempt.
C3_EarlyFailureRetries ==
    (login_out.kind = "raise" /\ failed_at \in {"navigate", "locate"})
       => attempt = max_retries - 1

\* C4: an error raised by solve on an attempt that is not the last one is
\* absorbed: the handler chooses to continue, the finally block removes the
\* image and only then the next attempt starts at navigate, login has not
\* ended, and the form is never submitted in an attempt whose solve failed.
C4_SolveErrorAbsorbed ==
    [][/\ (pc = "except" /\ failed_at = "solve" /\ attempt < max_retries - 1)
             => (pending' = "continue" /\ pc' = "finally" /\ login_out' = None)
       /\ (pc = "finally" /\ failed_at = "solve" /\ attempt < max_retries - 1)
             => /\ pc' = "loop"
                /\ attempt' = attempt + 1
                /\ files' = {}
                /\ login_out' = None
       /\ (pc = "loop" /\ outcomes # <<>> /\ Last(outcomes).step = "solve"
              /\ attempt < max_retries)
             => (pc' = "navigate" /\ files' = {})
       /\ (failed_at' = "solve")
             => /\ Count(CurrentAttemptOps(driver_ops'), "fill_form") = 0
                /\ Count(CurrentAttemptOps(driver_ops'), "click_login") = 0
      ]_vars

C4_Witness ==
    /\ pc = "navigate"
    /\ attempt >= 1
    /\ Last(outcomes).step = "solve"
    /\ solve_out.kind = "raise"
    /\ files = {}

\* k-1 attempts that timed out waiting for the dashboard, then a success
AwaitTimeoutsThenSuccess(k) ==
    /\ Len(outcomes) = k
    /\ \A i \in 1..(k - 1) : outcomes[i] = [step |-> "await", log |-> "timeout"]
    /\ outcomes[k].step = "ok"

\* C5: if attempts 1..k-1 time out waiting for the dashboard and attempt k
\* sees it, login returns True after exactly k attempts with no temporary
\* file left; and login returns True only in an attempt whose wait saw the
\* dashboard right after the form was submitted.
C5_SuccessAfterAwaitTimeouts ==
    /\ \A k \in 1..max_retries :
          (LoginEnded /\ AwaitTimeoutsThenSuccess(k))
             => /\ login_out = Returned("True")
                /\ AttemptsStarted = k
                /\ files = {}
    /\ login_out = Returned("True")
          => /\ Len(driver_ops) >= 2
             /\ \E n \in 2..Len(driver_ops) :
                   /\ driver_ops[n] = "dashboard_found"
                   /\ driver_ops[n - 1] = "click_login"
                   /\ \A j \in (n + 1)..Len(driver_ops) :
                         driver_ops[j] \notin {"get_login", "dashboard_timeout"}
             /\ Last(outcomes).step = "ok"

C5_Witness ==
    /\ login_out = Returned("True")
    /\ AwaitTimeoutsThenSuccess(3)
    /\ AttemptsStarted = 3

\* C6: whenever solve returns with a non-empty template library, the
\* returned string has exactly 6 characters, one per position.
C6_SixCharacters ==
    (solve_out.kind = "return" /\ Len(test_set) >= 1)
       => /\ Len(solve_out.value) = NumPositions
          /\ \A i \in 1..NumPositions : solve_out.result[i] = <<solve_out.value[i]>>

\* C7: with an empty template library solve raises ConfigurationError
\* before the image is opened, and never returns a string.
C7_EmptyLibraryIsConfigurationError ==
    (solve_out.kind # "none" /\ Len(test_set) = 0)
       => /\ solve_out.kind = "raise"
          /\ solve_out.exc = "ConfigurationError"
          /\ ~solve_out.opened

\* confidences of the cell at position i of the solved image, per library index
Confidence(i, idx) ==
    CalculateMatchPercentage(
        ExtractCharacter(PreprocessImage(solve_out.content).matrix, i),
        test_set[idx], numpy_legacy).pct

TopIndices(i) ==
    {idx \in 1..Len(test_set) :
        \A other \in 1..Len(test_set) : Confidence(i, idx) >= Confidence(i, other)}

TiedAtTop(i) ==
    /\ Cardinality(TopIndices(i)) >= 2
    /\ \E idx \in TopIndices(i) : Confidence(i, idx) > 0

\* C8: when two or more templates reach the same top confidence (above 0)
\* for a cell, the label chosen is the one at the lowest library index
\* among them.
C8_TieGoesToLowestIndex ==
    solve_out.kind = "return" =>
       \A i \in 0..(NumPositions - 1) :
          TiedAtTop(i) =>
             solve_out.result[i + 1] =
                <<char_map[CHOOSE idx \in TopIndices(i) :
                              \A other \in TopIndices(i) : idx <= other]>>

C8_Witness ==
    /\ solve_out.kind = "return"
    /\ \E i \in 0..(NumPositions - 1) : TiedAtTop(i)
    /\ Len(solve_out.value) = NumPositions

\* C9: extraction at a position below 0, or whose column window
\* [position*10, position*10+10) exceeds the matrix width, fails with
\* SegmentationError; a returned cell is never narrower than 10 columns.
C9_OutOfRangeIsSegmentationError ==
    extract_out.kind # "none" =>
       /\ (extract_out.position < 0
              \/ extract_out.position * CellStep + CellStep > extract_out.width)
             => extract_out.kind = "raise"
       /\ extract_out.kind = "return" => Cols(extract_out.cell) = CellStep

\* C10: in extract_info, once the driver exists it is quit exactly once on
\* every exit path, quit is the last operation on the driver, and the marks
\* page is only visited after login returned True.
C10_DriverQuitOnce ==
    caller = "extract_info" =>
       /\ Count(driver_ops, "quit") <= 1
       /\ (pc = "exit" /\ driver # "None")
             => (Count(driver_ops, "quit") = 1 /\ driver = "quit")
       /\ (pc = "exit" /\ driver = "None") => driver_ops = <<>>
       /\ Count(driver_ops, "quit") = 1 => Last(driver_ops) = "quit"
       /\ (pc = "marks" \/ Count(driver_ops, "get_marks") > 0)
             => login_out = Returned("True")

C10_Witness ==
    /\ caller = "extract_info"
    /\ pc = "exit"
    /\ info_out.kind = "raise"
    /\ info_out.via \in {"login", "extract_marks"}
    /\ driver = "quit"

====
